---- MODULE Spec2Model ----
(***************************************************************************)
(* Model of dbt_query_tool.py: the catalog loader, the catalog index       *)
(* (get_table_names, get_table_info), the DuckDB sampling calls and the    *)
(* report printer main().                                                  *)
(*                                                                         *)
(* Strings that the program compares ignoring case (node names, requested  *)
(* table names) are sequences of one-character strings, so that            *)
(* str.lower() is computed character by character.  Standard output is     *)
(* the sequence `output' of printed lines, each a tuple whose first        *)
(* element is a tag naming the print statement that produced it, followed  *)
(* by the catalog-derived values it prints; the text a sampling call       *)
(* returned is held in main's locals sample_data and table_schema when the *)
(* line that prints it is appended.                                        *)
(***************************************************************************)
EXTENDS Naturals, Sequences, FiniteSets

VARIABLES
    catalog_file,      \* input: what open()/json.load() meet at --catalog
    llm_choice,        \* input: --llm
    api_key,           \* input: --api-key
    DUCKDB_AVAILABLE,  \* module flag set by the guarded import
    gc_immediate,      \* runtime: an unreachable connection is finalized at return
    catalog_data,      \* main's local: the loaded catalog, or None
    table_names,       \* main's local: result of get_table_names
    related_tables,    \* main's local: the tables named by the routing step
    idx,               \* position of the for loop in related_tables
    table_name,        \* the loop variable / the name looked up
    table_info,        \* result of the last get_table_info
    sample_data,       \* main's local: the last get_sample_data_duckdb result
    table_schema,      \* main's local: the last get_table_schema_duckdb result
    last_call,         \* the last sampling call: engine outcome, session opened, closed
    sessions,          \* DuckDB connections opened and not closed
    calls,             \* number of sampling calls made so far
    output,            \* lines printed so far
    exit_code,         \* <<status>> once the process has exited, << >> while it runs
    pc                 \* position in main()

vars == <<catalog_file, llm_choice, api_key, DUCKDB_AVAILABLE, gc_immediate,
          catalog_data, table_names, related_tables, idx, table_name,
          table_info, sample_data, table_schema, last_call, sessions,
          calls, output, exit_code, pc>>

----------------------------------------------------------------------------
(* Bounds *)

MaxNodes == 2

----------------------------------------------------------------------------
(* Strings and str.lower() *)

UpperCase == <<"A","B","C","D","E","F","G","H","I","J","K","L","M",
               "N","O","P","Q","R","S","T","U","V","W","X","Y","Z">>

LowerCase == <<"a","b","c","d","e","f","g","h","i","j","k","l","m",
               "n","o","p","q","r","s","t","u","v","w","x","y","z">>

lower_char(c) ==
    IF \E i \in DOMAIN UpperCase : UpperCase[i] = c
    THEN LowerCase[CHOOSE i \in DOMAIN UpperCase : UpperCase[i] = c]
    ELSE c

lower(s) == [i \in DOMAIN s |-> lower_char(s[i])]

customers == <<"c","u","s","t","o","m","e","r","s">>
Customers == <<"C","u","s","t","o","m","e","r","s">>
CUSTOMERS == <<"C","U","S","T","O","M","E","R","S">>
orders    == <<"o","r","d","e","r","s">>
ORDERS    == <<"O","R","D","E","R","S">>
products  == <<"p","r","o","d","u","c","t","s">>
payments  == <<"p","a","y","m","e","n","t","s">>

----------------------------------------------------------------------------
(* The catalog document *)

NoneValue == [kind |-> "None"]

\* json.load of the document `{}': a dict with no key, false in a condition
EmptyDoc == [kind |-> "dict", has_nodes |-> FALSE, nodes |-> <<>>]

\* a document with a top-level `nodes' mapping, in the file's order
Doc(nodes) == [kind |-> "dict", has_nodes |-> TRUE, nodes |-> nodes]

\* Python truth value of what load_catalog returns
Truthy(v) == v.kind = "dict" /\ v.has_nodes

QueryableTypes == {"model", "seed", "snapshot", "table", "view"}

ResourceTypes == QueryableTypes \cup {"source"}

ColumnsOf(name) ==
    IF lower(name) = customers
    THEN << [name |-> "id", dtype |-> "INTEGER",
             has_description |-> TRUE, description |-> "key"],
            [name |-> "name", dtype |-> "VARCHAR",
             has_description |-> FALSE, description |-> ""] >>
    ELSE IF lower(name) = orders
    THEN << >>
    ELSE << [name |-> "id", dtype |-> "INTEGER",
             has_description |-> FALSE, description |-> ""] >>

MkNode(name, rtype) ==
    [kind |-> "node", name |-> name, resource_type |-> rtype,
     has_description |-> rtype \in {"model", "source", "view"},
     description |-> IF rtype \in {"model", "source", "view"} THEN rtype ELSE "",
     columns |-> ColumnsOf(name)]

\* nodes of the catalogs the report printer is run on
NodePool ==
    { MkNode(customers, "model"), MkNode(Customers, "source"),
      MkNode(ORDERS, "view"),     MkNode(products, "seed"),
      MkNode(payments, "snapshot") }

\* nodes of the catalogs the index functions are applied to
NodeNames == {customers, Customers, CUSTOMERS, orders}

NodeUniverse == { MkNode(n, t) : n \in NodeNames, t \in ResourceTypes }

SeqsUpTo(S, n) == UNION { [1..k -> S] : k \in 0..n }

\* the nodes of a catalog are the values of a mapping keyed by unique id:
\* the report printer is run on catalogs of distinct nodes
Distinct(ns) == \A i, j \in DOMAIN ns : i # j => ns[i] # ns[j]

MainCatalogs ==
    { Doc(ns) : ns \in { q \in SeqsUpTo(NodePool, MaxNodes) : Distinct(q) } }

IndexCatalogs == { Doc(ns) : ns \in SeqsUpTo(NodeUniverse, MaxNodes) }

LoadFailures == {"FileNotFoundError", "JSONDecodeError", "Exception"}

CatalogFiles ==
    { [ok |-> FALSE, error |-> e, doc |-> NoneValue] : e \in LoadFailures }
    \cup { [ok |-> TRUE, error |-> "", doc |-> d] : d \in MainCatalogs \cup {EmptyDoc} }

----------------------------------------------------------------------------
(* load_catalog *)

load_catalog(file) ==
    IF file.ok THEN [ret |-> file.doc, printed |-> << >>]
    ELSE IF file.error = "FileNotFoundError"
         THEN [ret |-> NoneValue, printed |-> << <<"ErrorCatalogNotFound">> >>]
    ELSE IF file.error = "JSONDecodeError"
         THEN [ret |-> NoneValue, printed |-> << <<"ErrorCatalogInvalidJSON">> >>]
    ELSE [ret |-> NoneValue, printed |-> << <<"ErrorLoadingCatalog">> >>]

----------------------------------------------------------------------------
(* The catalog index *)

\* the scan comparing the stored name as written
name_matches_case_sensitive(node, name) == node.name = lower(name)

\* the test of the scan at line 53
name_matches(node, name) == lower(node.name) = lower(name)

RECURSIVE first_match(_, _)
first_match(nodes, name) ==
    IF nodes = << >> THEN NoneValue
    ELSE IF name_matches(Head(nodes), name) THEN Head(nodes)
    ELSE first_match(Tail(nodes), name)

get_table_info(data, name) ==
    IF ~Truthy(data) THEN NoneValue
    ELSE first_match(data.nodes, name)

\* the filter with `view' left out of the tuple
is_table_like_without_view(node) ==
    node.resource_type \in {"model", "seed", "snapshot", "table"}

\* the test of the filter at line 71
is_table_like(node) == node.resource_type \in QueryableTypes

RECURSIVE queryable_names(_)
queryable_names(nodes) ==
    IF nodes = << >> THEN << >>
    ELSE IF is_table_like(Head(nodes))
         THEN <<Head(nodes).name>> \o queryable_names(Tail(nodes))
         ELSE queryable_names(Tail(nodes))

get_table_names(data) ==
    IF ~Truthy(data) THEN << >>
    ELSE queryable_names(data.nodes)

----------------------------------------------------------------------------
(* The sampling calls.  `outcome' is what the engine does on this call:    *)
(* duckdb.connect raises, execute/fetchdf raises, or the query succeeds.   *)
(* Each operator returns the string returned and whether a connection was  *)
(* opened and whether conn.close() was reached.                            *)

\* None, or the empty string, where a sampling call's text is expected
NoneText == << >>

EngineOutcomes == {"connect_fails", "execute_fails", "ok"}

\* the engine is reached only past the DUCKDB_AVAILABLE test of lines 103, 132
engine_outcomes == IF DUCKDB_AVAILABLE THEN EngineOutcomes ELSE {"not_called"}

data_path == "data"

generate_duckdb_query(tname, catalog_path) ==
    IF ~DUCKDB_AVAILABLE THEN NoneValue
    ELSE [kind |-> "query", from |-> tname, limit |-> "LIMIT 5"]

get_sample_data_duckdb(tname, catalog_path, outcome) ==
    IF ~DUCKDB_AVAILABLE
    THEN [ret |-> <<"DuckDBNotAvailable">>, opened |-> FALSE, closed |-> FALSE]
    ELSE LET query == generate_duckdb_query(tname, catalog_path) IN
         IF query = NoneValue
         THEN [ret |-> <<"QueryGenerationFailed">>, opened |-> FALSE, closed |-> FALSE]
         ELSE IF outcome = "connect_fails"
         THEN [ret |-> <<"ErrorSampleData", "connect">>,
               opened |-> FALSE, closed |-> FALSE]
         ELSE IF outcome = "execute_fails"
         THEN [ret |-> <<"ErrorSampleData", "execute">>,
               opened |-> TRUE, closed |-> FALSE]
         ELSE [ret |-> <<"SampleRows", query.from>>,
               opened |-> TRUE, closed |-> TRUE]

\* the schema call returning None on error, as its docstring has it
get_table_schema_duckdb_none_on_error(tname, catalog_path, outcome) ==
    IF ~DUCKDB_AVAILABLE
    THEN [ret |-> <<"DuckDBNotAvailable">>, opened |-> FALSE, closed |-> FALSE]
    ELSE IF outcome = "connect_fails"
    THEN [ret |-> NoneText, opened |-> FALSE, closed |-> FALSE]
    ELSE IF outcome = "execute_fails"
    THEN [ret |-> NoneText, opened |-> TRUE, closed |-> FALSE]
    ELSE [ret |-> <<"DescribeRows", tname>>, opened |-> TRUE, closed |-> TRUE]

get_table_schema_duckdb(tname, catalog_path, outcome) ==
    IF ~DUCKDB_AVAILABLE
    THEN [ret |-> <<"DuckDBNotAvailable">>, opened |-> FALSE, closed |-> FALSE]
    ELSE LET query == generate_duckdb_query(tname, catalog_path) IN
         IF query = NoneValue
         THEN [ret |-> <<"QueryGenerationFailed">>, opened |-> FALSE, closed |-> FALSE]
         ELSE IF outcome = "connect_fails"
         THEN [ret |-> <<"ErrorTableSchema", "connect">>,
               opened |-> FALSE, closed |-> FALSE]
         ELSE IF outcome = "execute_fails"
         THEN [ret |-> <<"ErrorTableSchema", "execute">>,
               opened |-> TRUE, closed |-> FALSE]
         ELSE [ret |-> <<"DescribeRows", query.from>>,
               opened |-> TRUE, closed |-> TRUE]

\* connections still open when a sampling call has returned: one the call
\* opened and did not close stays open unless the runtime finalizes the
\* unreachable connection object at once
sessions_after(n, call) ==
    IF call.opened /\ ~call.closed /\ ~gc_immediate THEN n + 1 ELSE n

\* a returned string is printed only when it is true in a condition
nonempty_text(text) == text # << >>

----------------------------------------------------------------------------
(* main() *)

ApiKeys == { [given |-> FALSE, value |-> ""],
             [given |-> TRUE,  value |-> ""],
             [given |-> TRUE,  value |-> "sk-key"] }

\* the credential test written `api_key is None'
api_key_is_none(k) == ~k.given

\* `not api_key'
no_api_key(k) == ~k.given \/ k.value = ""

LLMChoices == {"openai", "ollama", "debug"}

RelatedTables == <<customers, orders, products>>

Running == << >>

NoText == NoneText

NoCall == [outcome |-> "not_called", opened |-> FALSE, closed |-> FALSE]

Init ==
    /\ catalog_file \in CatalogFiles
    /\ llm_choice \in LLMChoices
    /\ api_key \in ApiKeys
    /\ DUCKDB_AVAILABLE \in BOOLEAN
    /\ gc_immediate \in (IF DUCKDB_AVAILABLE THEN BOOLEAN ELSE {FALSE})
    /\ catalog_data = NoneValue
    /\ table_names = << >>
    /\ related_tables = << >>
    /\ idx = 0
    /\ table_name = << >>
    /\ table_info = NoneValue
    /\ sample_data = NoText
    /\ table_schema = NoText
    /\ last_call = NoCall
    /\ sessions = 0
    /\ calls = 0
    /\ output = << >>
    /\ exit_code = Running
    /\ pc = "load"

inputs == <<catalog_file, llm_choice, api_key, DUCKDB_AVAILABLE, gc_immediate>>

\* lines 165-167
LoadCatalog ==
    /\ pc = "load"
    /\ LET r == load_catalog(catalog_file) IN
       /\ catalog_data' = r.ret
       /\ output' = output \o r.printed
       /\ IF ~Truthy(r.ret)
          THEN pc' = "exited" /\ exit_code' = <<1>>
          ELSE pc' = "names" /\ exit_code' = exit_code
    /\ UNCHANGED <<inputs, table_names, related_tables, idx, table_name,
                   table_info, sample_data, table_schema, last_call, sessions, calls>>

\* line 170
ComputeTableNames ==
    /\ pc = "names"
    /\ table_names' = get_table_names(catalog_data)
    /\ pc' = "route"
    /\ UNCHANGED <<inputs, catalog_data, related_tables, idx, table_name,
                   table_info, sample_data, table_schema, last_call, sessions, calls,
                   output, exit_code>>

\* what the branch of lines 173-194 taken for `choice' prints
route_prints(choice, names) ==
    IF choice = "debug" THEN << <<"DebugMode">> >>
    ELSE << <<"CallingLLM", choice>>, <<"TablesInCatalog", names>> >>

\* the ollama branch naming two tables only
route_tables_ollama_two(choice) ==
    IF choice = "ollama" THEN <<customers, orders>> ELSE RelatedTables

\* the list the branch of lines 173-194 taken for `choice' assigns
route_tables(choice) == RelatedTables

\* lines 173-196
Route ==
    /\ pc = "route"
    /\ IF llm_choice = "openai" /\ no_api_key(api_key)
       THEN /\ output' = Append(output, <<"ErrorApiKeyRequired">>)
            /\ pc' = "exited"
            /\ exit_code' = <<1>>
            /\ UNCHANGED <<related_tables, idx>>
       ELSE /\ output' = output \o route_prints(llm_choice, table_names)
                                \o << <<"Response", llm_choice>> >>
            /\ related_tables' = route_tables(llm_choice)
            /\ idx' = 1
            /\ pc' = "loop"
            /\ UNCHANGED exit_code
    /\ UNCHANGED <<inputs, catalog_data, table_names, table_name, table_info,
                   sample_data, table_schema, last_call, sessions, calls>>

column_line(c) ==
    <<"Column", c.name, c.dtype,
      IF c.has_description THEN c.description ELSE "No description.">>

\* lines 201-205
metadata_block(tname, info) ==
    << <<"Table", tname>>,
       <<"Description", IF info.has_description THEN info.description
                        ELSE "No description available.">>,
       <<"ColumnsHeader">> >>
    \o [i \in DOMAIN info.columns |-> column_line(info.columns[i])]

\* lines 198-205 and 217-218: one turn of the for loop up to the sampling
LookupTable ==
    /\ pc = "loop"
    /\ idx <= Len(related_tables)
    /\ LET tname == related_tables[idx]
           info == get_table_info(catalog_data, tname) IN
       /\ table_name' = tname
       /\ table_info' = info
       /\ IF info # NoneValue
          THEN /\ output' = output \o metadata_block(tname, info)
               /\ pc' = "sample_data"
               /\ idx' = idx
          ELSE /\ output' = Append(output, <<"NotFound", tname>>)
               /\ pc' = "loop"
               /\ idx' = idx + 1
    /\ UNCHANGED <<inputs, catalog_data, table_names, related_tables,
                   sample_data, table_schema, last_call, sessions, calls, exit_code>>

\* lines 208-211
SampleData ==
    /\ pc = "sample_data"
    /\ \E outcome \in engine_outcomes :
         LET call == get_sample_data_duckdb(table_name, data_path, outcome) IN
         /\ last_call' = [outcome |-> outcome, opened |-> call.opened,
                          closed |-> call.closed]
         /\ sample_data' = call.ret
         /\ output' = IF nonempty_text(call.ret)
                       THEN output \o << <<"SampleDataHeader">>, <<"SampleDataText">> >>
                       ELSE output
         /\ sessions' = sessions_after(sessions, call)
    /\ calls' = calls + 1
    /\ pc' = "sample_schema"
    /\ UNCHANGED <<inputs, catalog_data, table_names, related_tables, idx,
                   table_name, table_info, table_schema, exit_code>>

\* lines 213-216
SampleSchema ==
    /\ pc = "sample_schema"
    /\ \E outcome \in engine_outcomes :
         LET call == get_table_schema_duckdb(table_name, data_path, outcome) IN
         /\ last_call' = [outcome |-> outcome, opened |-> call.opened,
                          closed |-> call.closed]
         /\ table_schema' = call.ret
         /\ output' = IF nonempty_text(call.ret)
                       THEN output \o << <<"TableSchemaHeader">>, <<"TableSchemaText">> >>
                       ELSE output
         /\ sessions' = sessions_after(sessions, call)
    /\ calls' = calls + 1
    /\ idx' = idx + 1
    /\ pc' = "loop"
    /\ UNCHANGED <<inputs, catalog_data, table_names, related_tables,
                   table_name, table_info, sample_data, exit_code>>

\* the ollama branch announcing the advice without printing it
advice_prints_ollama_silent(choice) ==
    IF choice = "debug" THEN << <<"Advice", choice>> >>
    ELSE IF choice = "ollama" THEN << <<"CallingForAdvice", choice>> >>
    ELSE << <<"CallingForAdvice", choice>>, <<"Advice", choice>> >>

\* what the branch of lines 221-233 taken for `choice' prints
advice_prints(choice) ==
    IF choice = "debug" THEN << <<"Advice", choice>> >>
    ELSE << <<"CallingForAdvice", choice>>, <<"Advice", choice>> >>

\* lines 220-233, reached when the for loop is exhausted
QueryAdvice ==
    /\ pc = "loop"
    /\ idx > Len(related_tables)
    /\ output' = output \o advice_prints(llm_choice)
    /\ pc' = "done"
    /\ UNCHANGED <<inputs, catalog_data, table_names, related_tables, idx,
                   table_name, table_info, sample_data, table_schema,
                   last_call, sessions, calls, exit_code>>

\* line 235 and the return of main
PrintDone ==
    /\ pc = "done"
    /\ output' = Append(output, <<"Done">>)
    /\ pc' = "exited"
    /\ exit_code' = <<0>>
    /\ UNCHANGED <<inputs, catalog_data, table_names, related_tables, idx,
                   table_name, table_info, sample_data, table_schema,
                   last_call, sessions, calls>>

Next ==
    \/ LoadCatalog
    \/ ComputeTableNames
    \/ Route
    \/ LookupTable
    \/ SampleData
    \/ SampleSchema
    \/ QueryAdvice
    \/ PrintDone

Spec == Init /\ [][Next]_vars

\* main runs on one thread with no suspension point: it always takes its
\* next step
FairSpec == Spec /\ WF_vars(Next)

----------------------------------------------------------------------------
(* The catalog index applied to arbitrary catalogs and names: one call of  *)
(* get_table_names or get_table_info on a catalog drawn from               *)
(* IndexCatalogs, the empty document or None.                              *)

LookupNames == {customers, Customers, CUSTOMERS, orders, products}

InitIndex ==
    /\ catalog_data \in IndexCatalogs \cup {EmptyDoc, NoneValue}
    /\ catalog_file = [ok |-> TRUE, error |-> "", doc |-> EmptyDoc]
    /\ llm_choice = "debug"
    /\ api_key = [given |-> FALSE, value |-> ""]
    /\ DUCKDB_AVAILABLE = FALSE
    /\ gc_immediate = FALSE
    /\ table_names = << >>
    /\ related_tables = << >>
    /\ idx = 0
    /\ table_name = << >>
    /\ table_info = NoneValue
    /\ sample_data = NoText
    /\ table_schema = NoText
    /\ last_call = NoCall
    /\ sessions = 0
    /\ calls = 0
    /\ output = << >>
    /\ exit_code = Running
    /\ pc = "index"

CallGetTableNames ==
    /\ pc = "index"
    /\ table_names' = get_table_names(catalog_data)
    /\ pc' = "index_names"
    /\ UNCHANGED <<inputs, catalog_data, related_tables, idx, table_name,
                   table_info, sample_data, table_schema, last_call,
                   sessions, calls, output, exit_code>>

CallGetTableInfo ==
    /\ pc = "index"
    /\ \E name \in LookupNames :
         /\ table_name' = name
         /\ table_info' = get_table_info(catalog_data, name)
    /\ pc' = "index_info"
    /\ UNCHANGED <<inputs, catalog_data, table_names, related_tables, idx,
                   sample_data, table_schema, last_call, sessions, calls,
                   output, exit_code>>

NextIndex == CallGetTableNames \/ CallGetTableInfo

SpecIndex == InitIndex /\ [][NextIndex]_vars

----------------------------------------------------------------------------
(* Vocabulary of the properties *)

\* two strings are equal up to the case of their ASCII letters
SameIgnoringCase(a, b) ==
    /\ Len(a) = Len(b)
    /\ \A i \in DOMAIN a :
         \/ a[i] = b[i]
         \/ \E k \in DOMAIN UpperCase :
              \/ a[i] = UpperCase[k] /\ b[i] = LowerCase[k]
              \/ a[i] = LowerCase[k] /\ b[i] = UpperCase[k]

\* positions of the nodes of a loaded catalog
NodePositions == IF Truthy(catalog_data) THEN DOMAIN catalog_data.nodes ELSE {}

\* positions of the nodes whose name is `name' up to case
Matching(name) ==
    { i \in NodePositions : SameIgnoringCase(catalog_data.nodes[i].name, name) }

\* positions of the nodes of the five queryable resource types
QueryablePositions ==
    { i \in NodePositions :
        catalog_data.nodes[i].resource_type
            \in {"model", "seed", "snapshot", "table", "view"} }

Least(S) == CHOOSE i \in S : \A j \in S : i <= j

\* the k-th smallest element of a set of positions
Kth(S, k) == CHOOSE i \in S : Cardinality({ j \in S : j < i }) = k - 1

KeyMissing == ~api_key.given \/ api_key.value = ""

\* the run got past the catalog check of lines 166-167
PastLoad == pc \notin {"load", "index", "index_names", "index_info"}
            /\ Truthy(catalog_data)

\* the routing step of lines 173-196 has run
RouteDone == PastLoad /\ pc \notin {"names", "route"}

\* the run got past the routing step without being aborted
PastRoute == RouteDone /\ ~(llm_choice = "openai" /\ KeyMissing)

----------------------------------------------------------------------------
(* C1: a run exits with status 1 if and only if the catalog failed to load *)
(* (not found, invalid JSON, other error) or the backend is openai and no  *)
(* API key is given; every other run exits with status 0.  The code also   *)
(* exits with 1 on a catalog that loaded as an empty document.             *)
C1_ExitOneIffLoadOrKeyFailure ==
    pc = "exited" =>
        /\ exit_code \in {<<0>>, <<1>>}
        /\ exit_code = <<1>> <=>
              (~catalog_file.ok \/ (llm_choice = "openai" /\ KeyMissing))

(* C2: when a sampling call has returned, the session it opened is closed, *)
(* also when the query failed: no session is ever left open between the    *)
(* steps of a run.  The code reaches conn.close() on the success path      *)
(* only.                                                                   *)
C2_NoSessionLeftOpen == sessions = 0

(* C3: get_table_names returns the names of exactly the nodes whose        *)
(* resource_type is model, seed, snapshot, table or view, one entry per    *)
(* such node and in catalog order, and the empty sequence for an absent    *)
(* or empty catalog.                                                       *)
C3_TableNamesAreQueryableNodesInOrder ==
    pc = "index_names" =>
        /\ Len(table_names) = Cardinality(QueryablePositions)
        /\ \A k \in DOMAIN table_names :
             table_names[k] = catalog_data.nodes[Kth(QueryablePositions, k)].name
        /\ ~Truthy(catalog_data) => table_names = << >>

C3_Witness ==
    /\ pc = "index_names"
    /\ Len(table_names) = 1
    /\ Cardinality(NodePositions) = 2
    /\ catalog_data.nodes[1].resource_type = "source"
    /\ catalog_data.nodes[2].resource_type = "table"

(* C4: get_table_info returns the first node, in catalog order, whose name *)
(* equals the requested name ignoring case, the same node for every case   *)
(* variant of the name, and None when no node matches or the catalog is    *)
(* empty or absent.                                                        *)
C4_FirstMatchIgnoringCase ==
    pc = "index_info" =>
        /\ table_info = IF Matching(table_name) = {} THEN NoneValue
                        ELSE catalog_data.nodes[Least(Matching(table_name))]
        /\ \A v \in LookupNames :
             SameIgnoringCase(v, table_name)
                => get_table_info(catalog_data, v) = table_info
        /\ ~Truthy(catalog_data) => table_info = NoneValue

C4_Witness ==
    /\ pc = "index_info"
    /\ table_name = CUSTOMERS
    /\ Cardinality(Matching(table_name)) = 2
    /\ table_info # NoneValue
    /\ table_info.name = Customers
    /\ catalog_data.nodes[1] # catalog_data.nodes[2]

(* C5: once the routing step has run, backend openai without an API key   *)
(* has printed the missing-credential error and nothing else and exited    *)
(* with status 1; openai with a non-empty key, and ollama and debug with   *)
(* or without a key, have printed the routing output and are not aborted.  *)
C5_CredentialCheckedBeforeRouting ==
    RouteDone =>
        IF llm_choice = "openai" /\ KeyMissing
        THEN /\ pc = "exited"
             /\ exit_code = <<1>>
             /\ output = << <<"ErrorApiKeyRequired">> >>
        ELSE /\ exit_code # <<1>>
             /\ Len(output) >= 2
             /\ output[1][1] \in {"CallingLLM", "DebugMode"}
             /\ \A i \in DOMAIN output : output[i][1] # "ErrorApiKeyRequired"

C5_Witness ==
    /\ pc = "exited"
    /\ PastLoad
    /\ llm_choice = "openai"
    /\ api_key.given
    /\ api_key.value = ""
    /\ exit_code = <<1>>

\* the lines the routing step prints before the report loop starts
RoutingLines == IF llm_choice = "debug" THEN 2 ELSE 3

\* what the report loop is to print for one related table
ExpectedBlock(t) ==
    IF Matching(t) = {} THEN << <<"NotFound", t>> >>
    ELSE LET n == catalog_data.nodes[Least(Matching(t))] IN
         << <<"Table", t>>,
            <<"Description", IF n.has_description THEN n.description
                             ELSE "No description available.">>,
            <<"ColumnsHeader">> >>
         \o [i \in DOMAIN n.columns |->
               <<"Column", n.columns[i].name, n.columns[i].dtype,
                 IF n.columns[i].has_description THEN n.columns[i].description
                 ELSE "No description.">>]
         \o << <<"SampleDataHeader">>, <<"SampleDataText">>,
               <<"TableSchemaHeader">>, <<"TableSchemaText">> >>

RECURSIVE ExpectedBlocks(_, _)
ExpectedBlocks(tables, n) ==
    IF n = 0 THEN << >>
    ELSE ExpectedBlocks(tables, n - 1) \o ExpectedBlock(tables[n])

\* the first n lines of a sequence
Take(q, n) == SubSeq(q, 1, n)

\* what the loop has printed so far
LoopOutput == SubSeq(output, RoutingLines + 1, Len(output))

(* C6: in every run past catalog loading and routing the related-table     *)
(* list is [customers, orders, products] for every backend, and the report *)
(* loop handles the three once each and in that order: a not-found notice  *)
(* for a table with no node, and for a table with a node its description   *)
(* and columns, then its sample data, then its schema.                     *)
C6_LoopHandlesEachRelatedTableInOrder ==
    PastRoute =>
        LET three == <<customers, orders, products>>
            cur == ExpectedBlock(three[idx]) IN
        /\ related_tables = three
        /\ idx \in 1..4
        /\ pc = "loop" => LoopOutput = ExpectedBlocks(three, idx - 1)
        /\ pc = "sample_data" =>
             /\ Matching(three[idx]) # {}
             /\ LoopOutput = ExpectedBlocks(three, idx - 1) \o Take(cur, Len(cur) - 4)
        /\ pc = "sample_schema" =>
             /\ Matching(three[idx]) # {}
             /\ LoopOutput = ExpectedBlocks(three, idx - 1) \o Take(cur, Len(cur) - 2)
        /\ pc \in {"done", "exited"} =>
             /\ idx = 4
             /\ Take(LoopOutput, Len(ExpectedBlocks(three, 3))) = ExpectedBlocks(three, 3)
             /\ LoopOutput[Len(ExpectedBlocks(three, 3)) + 1][1]
                  \in {"CallingForAdvice", "Advice"}

C6_Witness ==
    /\ pc = "exited"
    /\ PastRoute
    /\ llm_choice = "ollama"
    /\ Matching(customers) = {}
    /\ Matching(orders) # {}
    /\ Matching(products) # {}

\* the string the last sampling call returned
LastText == IF pc = "sample_schema" THEN sample_data ELSE table_schema

Phase(line) ==
    IF line[1] \in {"CallingLLM", "TablesInCatalog", "DebugMode", "Response"} THEN 1
    ELSE IF line[1] \in {"Table", "Description", "ColumnsHeader", "Column",
                         "SampleDataHeader", "SampleDataText",
                         "TableSchemaHeader", "TableSchemaText", "NotFound"} THEN 2
    ELSE IF line[1] \in {"CallingForAdvice", "Advice"} THEN 3
    ELSE IF line[1] = "Done" THEN 4
    ELSE 0

Count(tags) == Cardinality({ i \in DOMAIN output : output[i][1] \in tags })

\* how far main has got: every step of main moves to a higher position
Position ==
    IF pc = "load" THEN 0
    ELSE IF pc = "names" THEN 1
    ELSE IF pc = "route" THEN 2
    ELSE IF pc = "loop" THEN 3 * idx
    ELSE IF pc = "sample_data" THEN 3 * idx + 1
    ELSE IF pc = "sample_schema" THEN 3 * idx + 2
    ELSE IF pc = "done" THEN 13
    ELSE 14

C8_Order ==
    /\ \A i \in 1..(Len(output) - 1) : Phase(output[i]) <= Phase(output[i + 1])
    /\ Count({"Response"}) <= 1
    /\ Count({"Advice"}) <= 1
    /\ Count({"Done"}) <= 1
    /\ Count({"Table", "NotFound"}) <= 3
    /\ (PastLoad /\ pc # "names") => table_names = get_table_names(catalog_data)
    /\ (PastRoute /\ pc \in {"done", "exited"}) =>
         /\ Count({"Response"}) = 1
         /\ Count({"Table", "NotFound"}) = 3
         /\ Count({"Advice"}) = 1
         /\ Count({"CallingForAdvice"}) = IF llm_choice = "debug" THEN 0 ELSE 1
         /\ \A i \in DOMAIN output :
              output[i][1] \in {"CallingForAdvice", "Advice"}
                 => output[i][2] = llm_choice
    /\ (PastRoute /\ pc = "exited") =>
         /\ exit_code = <<0>>
         /\ output[Len(output)] = <<"Done">>
         /\ Count({"Done"}) = 1
    /\ pc # "exited" => ENABLED Next
    /\ pc = "exited" => ~ENABLED Next

C8_Step == Position' > Position /\ Position' <= 14

C10_MetadataOnlyForQueryableTables ==
    \A i \in DOMAIN output :
        output[i][1] = "Table" =>
            \E k \in DOMAIN get_table_names(catalog_data) :
                SameIgnoringCase(get_table_names(catalog_data)[k], output[i][2])

====
